---- MODULE Spec2Model ----
(***************************************************************************)
(* Model of the "Search Library" command of logos-search: catalog          *)
(* discovery, schema inference, extraction, the JSON cache and the         *)
(* rebuildIndex / loadCatalog orchestration with its React state.          *)
(***************************************************************************)
EXTENDS Integers, Sequences, FiniteSets, TLC

(***************************************************************************)
(* Bounds of the model.                                                    *)
(***************************************************************************)
\* number of rebuildIndex invocations in one behaviour
MaxLoads == 3
\* greatest modification time a catalog file takes
MaxMtime == 3
\* number of filesystem changes the environment makes in one behaviour
MaxFsChanges == 1
\* number of rows of the table handed to queryResources in SpecExtract
MaxRows == 3
\* number of records of the payload handed to writeCache in SpecCache
MaxCacheRows == 2

(***************************************************************************)
(* JavaScript values.  A string-valued field that may be null holds Null;  *)
(* a field that was never assigned holds Undefined.                        *)
(***************************************************************************)
Null == "<null>"
Undefined == "<undefined>"

\* SQLite storage classes as sql.js hands them over
SqlNull == [t |-> "null"]
SqlText(s) == [t |-> "text", s |-> s]
SqlInt(n) == [t |-> "int", n |-> n]
SqlBlob(b) == [t |-> "blob", b |-> b]

\* String(n) for the small integers of the model
StringOfNumber(n) ==
  CASE n = 0 -> "0" [] n = 1 -> "1" [] n = 2 -> "2" [] n = 3 -> "3"
    [] OTHER -> "9"

\* Array.prototype.join(",") of the bytes, which is String(Uint8Array)
RECURSIVE JoinBytes(_)
JoinBytes(b) ==
  IF Len(b) = 0 THEN ""
  ELSE IF Len(b) = 1 THEN StringOfNumber(b[1])
  ELSE StringOfNumber(b[1]) \o "," \o JoinBytes(Tail(b))

\* typeof value === "string" ? value : String(value)          (line 382)
CoerceToString(v) ==
  CASE v.t = "text" -> v.s
    [] v.t = "int" -> StringOfNumber(v.n)
    [] v.t = "blob" -> JoinBytes(v.b)
    [] OTHER -> Null

\* a comparison that keeps the letter case
toLowerCase_identity(s) == s

\* String.prototype.toLowerCase on the identifiers of the model
toLowerCase(s) ==
  CASE s = "TITLE" -> "title"
    [] s = "Title" -> "title"
    [] s = "ResourceId" -> "resourceid"
    [] s = "ID" -> "id"
    [] s = "Name" -> "name"
    [] s = "Author" -> "author"
    [] s = "RESOURCES" -> "resources"
    [] s = "Resource" -> "resource"
    [] s = "Resources" -> "resources"
    [] s = "LibraryCatalog" -> "librarycatalog"
    [] s = "Catalog" -> "catalog"
    [] s = "LibraryResources" -> "libraryresources"
    [] s = "Books" -> "books"
    [] s = "Authors" -> "authors"
    [] OTHER -> s

(***************************************************************************)
(* Program constants (lines 52-57).                                        *)
(***************************************************************************)
\* the known table names with Catalog ahead of Resources
RESOURCE_TABLE_CANDIDATES_catalogFirst ==
  <<"Resource", "Catalog", "LibraryCatalog", "Resources", "LibraryResources">>

RESOURCE_TABLE_CANDIDATES ==
  <<"Resource", "Resources", "LibraryCatalog", "Catalog", "LibraryResources">>
ID_COLUMN_CANDIDATES == <<"resourceid", "resource_id", "res_id", "id">>
TITLE_COLUMN_CANDIDATES == <<"title", "name", "displayname", "resourcetitle">>
AUTHOR_COLUMN_CANDIDATES == <<"author", "authors", "creator", "authorname">>
ABBREV_COLUMN_CANDIDATES ==
  <<"abbreviation", "abbrev", "shorttitle", "resourceabbreviation">>

(***************************************************************************)
(* Sequence helpers.                                                       *)
(***************************************************************************)
Range(s) == {s[i] : i \in DOMAIN s}

\* Array.prototype.indexOf, 1-based; 0 when absent
indexOf(s, e) ==
  IF \E i \in DOMAIN s : s[i] = e
  THEN CHOOSE i \in DOMAIN s : s[i] = e /\ \A j \in 1..(i - 1) : s[j] # e
  ELSE 0

\* slice(0, n) that keeps the whole array
slice_all(s, n) == s

\* Array.prototype.slice(0, n)
slice(s, n) == IF Len(s) <= n THEN s ELSE SubSeq(s, 1, n)

(***************************************************************************)
(* findColumn (lines 430-439).                                             *)
(***************************************************************************)
RECURSIVE findColumnFrom(_, _, _)
findColumnFrom(columns, candidates, k) ==
  IF k > Len(candidates) THEN Undefined
  ELSE LET lowerCaseColumns == [i \in DOMAIN columns |-> toLowerCase(columns[i])]
           index == indexOf(lowerCaseColumns, candidates[k])
       IN IF index >= 1 THEN columns[index]
          ELSE findColumnFrom(columns, candidates, k + 1)

\* the first column, by position, that matches any candidate
findColumn_positional(columns, candidates) ==
  LET hits == {i \in DOMAIN columns : toLowerCase(columns[i]) \in Range(candidates)}
  IN IF hits = {} THEN Undefined
     ELSE columns[CHOOSE i \in hits : \A j \in hits : i <= j]

findColumn(columns, candidates) == findColumnFrom(columns, candidates, 1)

(***************************************************************************)
(* A database is [kind |-> "sqlite", tables |-> <<table, ...>>] or         *)
(* [kind |-> "corrupt"]; a table is [name, columns, rows], each row a      *)
(* sequence of SQLite values aligned with columns.                         *)
(***************************************************************************)
\* SELECT name FROM sqlite_master WHERE type='table', into a Set that keeps
\* insertion order (lines 304-312)
RECURSIVE DedupNames(_, _)
DedupNames(names, acc) ==
  IF names = <<>> THEN acc
  ELSE DedupNames(Tail(names),
                  IF Head(names) \in Range(acc) \/ Head(names) = ""
                  THEN acc ELSE Append(acc, Head(names)))

tableNamesOf(database) ==
  DedupNames([i \in DOMAIN database.tables |-> database.tables[i].name], <<>>)

\* SQLite resolves a quoted identifier against its tables without regard to
\* letter case; 0 when there is no such table
tableIndex(database, tableName) ==
  indexOf([i \in DOMAIN database.tables |-> toLowerCase(database.tables[i].name)],
          toLowerCase(tableName))

\* PRAGMA table_info(<quoted table>) mapped to the column names (lines 321-326);
\* <<>> when the pragma yields no result
pragmaColumns(database, tableName) ==
  LET t == tableIndex(database, tableName)
  IN IF t = 0 THEN <<>> ELSE database.tables[t].columns

(***************************************************************************)
(* findResourceTable (lines 303-345).  The result is the inferred schema   *)
(* with found |-> TRUE, or [found |-> FALSE] where the code throws.        *)
(***************************************************************************)
SchemaNotFoundMessage == "Could not find a resource table inside catalog.db"

\* a table skipped only when it has neither an id nor a title column
missingColumn_both(idColumn, titleColumn) ==
  idColumn = Undefined /\ titleColumn = Undefined

\* line 329: !idColumn || !titleColumn
missingColumn(idColumn, titleColumn) ==
  idColumn = Undefined \/ titleColumn = Undefined

RECURSIVE findResourceTableFrom(_, _, _)
findResourceTableFrom(database, orderedTables, k) ==
  IF k > Len(orderedTables) THEN [found |-> FALSE]
  ELSE LET tableName == orderedTables[k]
           columns == pragmaColumns(database, tableName)
           idColumn == findColumn(columns, ID_COLUMN_CANDIDATES)
           titleColumn == findColumn(columns, TITLE_COLUMN_CANDIDATES)
       IN IF tableName \notin Range(tableNamesOf(database))
             /\ tableName \notin Range(RESOURCE_TABLE_CANDIDATES)
          THEN findResourceTableFrom(database, orderedTables, k + 1)
          ELSE IF columns = <<>>
          THEN findResourceTableFrom(database, orderedTables, k + 1)
          ELSE IF missingColumn(idColumn, titleColumn)
          THEN findResourceTableFrom(database, orderedTables, k + 1)
          ELSE [found |-> TRUE,
                tableName |-> tableName,
                idColumn |-> idColumn,
                titleColumn |-> titleColumn,
                authorColumn |-> findColumn(columns, AUTHOR_COLUMN_CANDIDATES),
                abbrevColumn |-> findColumn(columns, ABBREV_COLUMN_CANDIDATES)]

\* the tables present searched ahead of the known names
findResourceTable_presentFirst(database) ==
  findResourceTableFrom(database,
                        tableNamesOf(database) \o RESOURCE_TABLE_CANDIDATES, 1)

findResourceTable(database) ==
  findResourceTableFrom(database,
                        RESOURCE_TABLE_CANDIDATES \o tableNamesOf(database), 1)

(***************************************************************************)
(* queryResources (lines 347-404).                                         *)
(***************************************************************************)
\* the value a row holds in the named column (SQLite column names are
\* case-insensitive)
cell(table, row, column) ==
  row[indexOf([i \in DOMAIN table.columns |-> toLowerCase(table.columns[i])],
              toLowerCase(column))]

\* the projection query of lines 351-365: one <<id, title, author, abbrev>>
\* tuple per row whose id and title are both NOT NULL; a column that was not
\* selected is absent from the result and reads as SqlNull here
RECURSIVE execSelect(_, _, _)
execSelect(table, columns, k) ==
  IF k > Len(table.rows) THEN <<>>
  ELSE LET row == table.rows[k]
           id == cell(table, row, columns.idColumn)
           title == cell(table, row, columns.titleColumn)
           author == IF columns.authorColumn = Undefined THEN SqlNull
                     ELSE cell(table, row, columns.authorColumn)
           abbrev == IF columns.abbrevColumn = Undefined THEN SqlNull
                     ELSE cell(table, row, columns.abbrevColumn)
           rest == execSelect(table, columns, k + 1)
       IN IF id # SqlNull /\ title # SqlNull
          THEN <<[id |-> id, title |-> title, author |-> author, abbrev |-> abbrev]>>
               \o rest
          ELSE rest

\* lines 375-383: the Partial<ResourceRow> built from one result row
recordOf(row) ==
  [id |-> IF row.id = SqlNull THEN Undefined ELSE CoerceToString(row.id),
   title |-> IF row.title = SqlNull THEN Undefined ELSE CoerceToString(row.title),
   author |-> IF row.author = SqlNull THEN Undefined ELSE CoerceToString(row.author),
   abbrev |-> IF row.abbrev = SqlNull THEN Undefined ELSE CoerceToString(row.abbrev)]

\* !value for a string-or-undefined value
falsy(s) == s = Undefined \/ s = ""

\* skipRecord testing the id alone
skipRecord_idOnly(record) == falsy(record.id)

\* lines 385-386: the row is skipped when it has no usable id or title
skipRecord(record) == falsy(record.id) \/ falsy(record.title)

\* seenBefore without the seen set: every row passes
seenBefore_never(seen, record) == FALSE

\* lines 389-391: the row is skipped when its id was seen before
seenBefore(seen, record) == record.id \in seen

\* lines 374-400: the loop over the result rows
RECURSIVE collectItems(_, _, _)
collectItems(rows, items, seen) ==
  IF rows = <<>> THEN items
  ELSE LET record == recordOf(Head(rows))
       IN IF skipRecord(record) THEN collectItems(Tail(rows), items, seen)
          ELSE IF seenBefore(seen, record) THEN collectItems(Tail(rows), items, seen)
          ELSE collectItems(Tail(rows),
                 Append(items,
                        [id |-> record.id,
                         title |-> record.title,
                         author |-> IF record.author = Undefined THEN Null
                                    ELSE record.author,
                         abbrev |-> IF record.abbrev = Undefined THEN Null
                                    ELSE record.abbrev]),
                 seen \cup {record.id})

\* collation rank of the titles of the model under the default locale
\* (digits before letters, lower case before upper case of the same letter,
\* a prefix before its extensions)
titleRank(s) ==
  CASE s = "" -> 0
    [] s = "0" -> 1
    [] s = "1" -> 2
    [] s = "2" -> 3
    [] s = "3" -> 4
    [] s = "a" -> 5
    [] s = "A" -> 6
    [] s = "b" -> 7
    [] s = "Genesis" -> 8
    [] s = "genesis commentary" -> 9
    [] OTHER -> 10

\* localeCompare by UTF-16 code units: upper case before lower case
localeCompare_codeUnit(a, b) ==
  LET unit(s) == CASE s = "A" -> 5 [] s = "Genesis" -> 6 [] s = "a" -> 7
                   [] s = "b" -> 8 [] OTHER -> titleRank(s)
  IN IF unit(a) < unit(b) THEN -1 ELSE IF unit(a) > unit(b) THEN 1 ELSE 0

\* String.prototype.localeCompare
localeCompare(a, b) ==
  IF titleRank(a) < titleRank(b) THEN -1
  ELSE IF titleRank(a) > titleRank(b) THEN 1 ELSE 0

\* stable insertion of one item into a sorted sequence
RECURSIVE insertSorted(_, _)
insertSorted(sorted, item) ==
  IF sorted = <<>> THEN <<item>>
  ELSE IF localeCompare(sorted[Len(sorted)].title, item.title) <= 0
  THEN Append(sorted, item)
  ELSE Append(insertSorted(SubSeq(sorted, 1, Len(sorted) - 1), item),
              sorted[Len(sorted)])

\* items.sort((a, b) => a.title.localeCompare(b.title)), a stable sort (line 402)
RECURSIVE sortByTitle(_)
sortByTitle(items) ==
  IF items = <<>> THEN <<>>
  ELSE insertSorted(sortByTitle(SubSeq(items, 1, Len(items) - 1)),
                    items[Len(items)])

queryResources(database, columns) ==
  LET table == database.tables[tableIndex(database, columns.tableName)]
      result == execSelect(table, columns, 1)
  IN IF result = <<>> THEN <<>>
     ELSE sortByTitle(collectItems(result, <<>>, {}))

(***************************************************************************)
(* JSON.  A JSON document is a tree of tagged values; the text of a file   *)
(* is [kind |-> "json", doc |-> tree] or [kind |-> "garbage"], the latter  *)
(* standing for any text JSON.parse rejects (a truncated write, an empty   *)
(* file).                                                                  *)
(***************************************************************************)
JNull == [j |-> "null"]
JUndefined == [j |-> "undefined"]
JStr(s) == [j |-> "str", s |-> s]
JNum(n) == [j |-> "num", n |-> n]
JArr(a) == [j |-> "arr", a |-> a]
JObj(o) == [j |-> "obj", o |-> o]
Member(k, v) == [k |-> k, v |-> v]

\* stringifyProperty leaving null properties out as if they were undefined
stringifyProperty_dropNull(k, s) ==
  IF s = Undefined \/ s = Null THEN <<>>
  ELSE <<Member(k, JStr(s))>>

\* JSON.stringify of a string | null | undefined property: undefined
\* properties are left out of the object
stringifyProperty(k, s) ==
  IF s = Undefined THEN <<>>
  ELSE IF s = Null THEN <<Member(k, JNull)>>
  ELSE <<Member(k, JStr(s))>>

stringifyRow(r) ==
  JObj(stringifyProperty("id", r.id) \o stringifyProperty("title", r.title)
       \o stringifyProperty("author", r.author)
       \o stringifyProperty("abbrev", r.abbrev))

\* JSON.stringify(payload) (line 424)
JSONstringify(payload) ==
  [kind |-> "json",
   doc |-> JObj(<<Member("dbPath", JStr(payload.dbPath)),
                  Member("mtimeMs", JNum(payload.mtimeMs)),
                  Member("resources",
                         JArr([i \in DOMAIN payload.resources |->
                                 stringifyRow(payload.resources[i])]))>>)]

\* property access on a parsed value; reading a property of null throws
getProperty(v, k) ==
  IF v.j = "obj" /\ \E i \in DOMAIN v.o : v.o[i].k = k
  THEN v.o[CHOOSE i \in DOMAIN v.o :
             v.o[i].k = k /\ \A m \in DOMAIN v.o : v.o[m].k = k => m <= i].v
  ELSE JUndefined

\* a parsed property read as the string | null | undefined field of a row
fieldOf(v) ==
  CASE v.j = "str" -> v.s
    [] v.j = "null" -> Null
    [] OTHER -> Undefined

rowOf(v) ==
  [id |-> fieldOf(getProperty(v, "id")),
   title |-> fieldOf(getProperty(v, "title")),
   author |-> fieldOf(getProperty(v, "author")),
   abbrev |-> fieldOf(getProperty(v, "abbrev"))]

(***************************************************************************)
(* readCache (lines 406-419).  The cache file is [state |-> "missing"]     *)
(* (ENOENT), [state |-> "unreadable"] (any other read error) or            *)
(* [state |-> "file", text |-> text].  The result is the payload with      *)
(* valid |-> TRUE, or NoCache where the code returns undefined.            *)
(***************************************************************************)
NoCache == [read |-> TRUE, valid |-> FALSE]

\* line 410
shapeOk(parsed) ==
  /\ getProperty(parsed, "resources").j = "arr"
  /\ getProperty(parsed, "dbPath").j = "str"
  /\ getProperty(parsed, "mtimeMs").j = "num"

readCache(file) ==
  IF file.state # "file" THEN NoCache
  ELSE IF file.text.kind # "json" THEN NoCache
  ELSE LET parsed == file.text.doc
       IN IF parsed.j = "null" THEN NoCache
          ELSE IF shapeOk(parsed)
          THEN [read |-> TRUE,
                valid |-> TRUE,
                dbPath |-> getProperty(parsed, "dbPath").s,
                mtimeMs |-> getProperty(parsed, "mtimeMs").n,
                resources |->
                  LET a == getProperty(parsed, "resources").a
                  IN [i \in DOMAIN a |-> rowOf(a[i])]]
          ELSE NoCache

(***************************************************************************)
(* writeCache (lines 421-428).  fault names the step that fails: "none",   *)
(* "mkdir", "open" (writeFile fails before truncating the file) or         *)
(* "write" (writeFile fails after truncating it).  The result is the       *)
(* cache file afterwards and whether the call threw.                       *)
(***************************************************************************)
WriteFaults == {"none", "mkdir", "open", "write"}

\* writeCache without its catch block
writeCacheThrows_propagates(fault) == fault # "none"

\* the catch block of lines 425-427 absorbs every error
writeCacheThrows(fault) == FALSE

writeCache(file, payload, fault) ==
  [file |-> CASE fault = "none" -> [state |-> "file", text |-> JSONstringify(payload)]
              [] fault = "write" -> [state |-> "file", text |-> [kind |-> "garbage"]]
              [] OTHER -> file,
   threw |-> writeCacheThrows(fault)]

(***************************************************************************)
(* The filesystem of catalogs.  fs.base is the state of the base data      *)
(* directory, fs.entries what readdir lists there, fs.files the state of   *)
(* each catalog file: [exists |-> "yes" | "no" | "denied", mtimeMs].       *)
(***************************************************************************)
BaseDir == "/Users/u/Library/Application Support/Logos4/Data"
NotFoundMessage ==
  "catalog.db not found. Launch Logos once, then try again. You may need to grant Raycast Full Disk Access."
AccessMessage == "EACCES: permission denied"

\* String.prototype.trim on the preference values and search texts of the
\* model
trim(s) ==
  CASE s = "  " -> ""
    [] s = " ge " -> "ge"
    [] s = " ~/catalog.db " -> "~/catalog.db"
    [] OTHER -> s

\* expandTilde (lines 446-451)
expandTilde(input) ==
  CASE input = "~/catalog.db" -> "/Users/u/catalog.db"
    [] OTHER -> input

\* path.join(baseDir, entry.name, "LibraryCatalog", "catalog.db") (line 265)
candidatePath(name) == BaseDir \o "/" \o name \o "/LibraryCatalog/catalog.db"

\* fs.access followed by fs.stat of one file
statOf(fs, p) ==
  IF p \in DOMAIN fs.files THEN fs.files[p] ELSE [exists |-> "no", mtimeMs |-> 0]

\* lines 260-270: the candidates in readdir order, or the error pathExists
\* rethrows
RECURSIVE scanEntries(_, _, _)
scanEntries(fs, k, candidates) ==
  IF k > Len(fs.entries) THEN [ok |-> TRUE, candidates |-> candidates]
  ELSE LET entry == fs.entries[k]
           candidate == candidatePath(entry.name)
           st == statOf(fs, candidate)
       IN IF ~entry.isDirectory THEN scanEntries(fs, k + 1, candidates)
          ELSE IF st.exists = "denied" THEN [ok |-> FALSE, message |-> AccessMessage]
          ELSE IF st.exists = "yes"
          THEN scanEntries(fs, k + 1,
                           Append(candidates, [path |-> candidate, mtimeMs |-> st.mtimeMs]))
          ELSE scanEntries(fs, k + 1, candidates)

\* the comparator with its operands exchanged: oldest first
mtimeOrder_ascending(a, b) == a.mtimeMs - b.mtimeMs

\* the comparator of line 278 puts a before b when it is not positive
mtimeOrder(a, b) == b.mtimeMs - a.mtimeMs

RECURSIVE insertByMtime(_, _)
insertByMtime(sorted, c) ==
  IF sorted = <<>> THEN <<c>>
  ELSE IF mtimeOrder(sorted[Len(sorted)], c) <= 0 THEN Append(sorted, c)
  ELSE Append(insertByMtime(SubSeq(sorted, 1, Len(sorted) - 1), c),
              sorted[Len(sorted)])

\* candidates.sort(...), a stable sort (line 278)
RECURSIVE sortByMtime(_)
sortByMtime(candidates) ==
  IF candidates = <<>> THEN <<>>
  ELSE insertByMtime(sortByMtime(SubSeq(candidates, 1, Len(candidates) - 1)),
                     candidates[Len(candidates)])

(***************************************************************************)
(* resolveCatalog (lines 239-280).  The result is the CatalogInfo with     *)
(* ok |-> TRUE, or the message of the error thrown; scanned tells whether  *)
(* the base directory was looked at.                                       *)
(***************************************************************************)
overrideNotFound(fullPath) == "catalog.db not found at " \o fullPath

\* lines 250-279: auto-discovery under the base directory
discoverCatalog(fs) ==
  CASE fs.base = "no" ->
         [ok |-> FALSE, message |-> NotFoundMessage, scanned |-> TRUE]
    [] fs.base = "denied" ->
         [ok |-> FALSE, message |-> AccessMessage, scanned |-> TRUE]
    [] OTHER ->
         LET scan == scanEntries(fs, 1, <<>>)
         IN IF ~scan.ok
            THEN [ok |-> FALSE, message |-> scan.message, scanned |-> TRUE]
            ELSE IF scan.candidates = <<>>
            THEN [ok |-> FALSE, message |-> NotFoundMessage, scanned |-> TRUE]
            ELSE LET first == sortByMtime(scan.candidates)[1]
                 IN [ok |-> TRUE, path |-> first.path,
                     mtimeMs |-> first.mtimeMs, scanned |-> TRUE]

\* resolveCatalog falling back to auto-discovery when the override is absent
resolveCatalog_fallback(preferences, fs) ==
  LET override == IF preferences.catalogPath = Undefined THEN Undefined
                  ELSE trim(preferences.catalogPath)
  IN IF ~falsy(override) /\ statOf(fs, expandTilde(override)).exists # "no"
     THEN LET fullPath == expandTilde(override)
              st == statOf(fs, fullPath)
          IN IF st.exists = "denied"
             THEN [ok |-> FALSE, message |-> AccessMessage, scanned |-> FALSE]
             ELSE [ok |-> TRUE, path |-> fullPath, mtimeMs |-> st.mtimeMs,
                   scanned |-> FALSE]
     ELSE discoverCatalog(fs)

resolveCatalog(preferences, fs) ==
  LET override == IF preferences.catalogPath = Undefined THEN Undefined
                  ELSE trim(preferences.catalogPath)
  IN IF ~falsy(override)
     THEN LET fullPath == expandTilde(override)
              st == statOf(fs, fullPath)
          IN CASE st.exists = "no" ->
                    [ok |-> FALSE, message |-> overrideNotFound(fullPath), scanned |-> FALSE]
               [] st.exists = "denied" ->
                    [ok |-> FALSE, message |-> AccessMessage, scanned |-> FALSE]
               [] OTHER ->
                    [ok |-> TRUE, path |-> fullPath, mtimeMs |-> st.mtimeMs,
                     scanned |-> FALSE]
     ELSE discoverCatalog(fs)

(***************************************************************************)
(* The databases of the model, by name.                                    *)
(***************************************************************************)
GenesisTable ==
  [name |-> "Resource",
   columns |-> <<"resourceid", "title", "author">>,
   rows |-> <<<<SqlInt(1), SqlText("Genesis"), SqlText("Moses")>>,
              <<SqlInt(2), SqlText("genesis commentary"), SqlText("Smith")>>>>]

\* duplicate ids, a null id, an empty title, titles out of order
MessyTable ==
  [name |-> "Books",
   columns |-> <<"ID", "Name", "abbrev">>,
   rows |-> <<<<SqlText("2"), SqlText("b"), SqlNull>>,
              <<SqlInt(2), SqlText("a"), SqlText("x")>>,
              <<SqlNull, SqlText("a"), SqlNull>>,
              <<SqlText("3"), SqlText(""), SqlNull>>,
              <<SqlText("1"), SqlText("A"), SqlNull>>>>]

\* no table with both an id and a title column
NoSchemaTable ==
  [name |-> "Resources",
   columns |-> <<"resourceid", "author">>,
   rows |-> <<<<SqlInt(1), SqlText("Moses")>>>>]

\* the content of a catalog file by its version: Logos rewrites the catalog
\* whenever the library changes, so the model ties the content of a catalog
\* file to its modification time
CatalogVersions == <<"genesis", "messy", "noschema", "corrupt">>

versionAt(mtimeMs) == CatalogVersions[((mtimeMs + 3) % 4) + 1]

Database(name) ==
  CASE name = "genesis" -> [kind |-> "sqlite", tables |-> <<GenesisTable>>]
    [] name = "messy" -> [kind |-> "sqlite", tables |-> <<NoSchemaTable, MessyTable>>]
    [] name = "noschema" -> [kind |-> "sqlite", tables |-> <<NoSchemaTable>>]
    [] OTHER -> [kind |-> "corrupt"]

CorruptMessage == "file is not a database"

(***************************************************************************)
(* The synchronous part of readCatalogDatabase (lines 285-293): the        *)
(* database is opened, the try block runs and finally closes it.  The      *)
(* result tells what is returned or thrown and whether the handle is       *)
(* still open when the function is left.                                   *)
(***************************************************************************)
\* close() at the end of the try block instead of in a finally block
closedOnExit_successOnly(threw) == ~threw

\* the finally block runs on both ways out of the try block
closedOnExit(threw) == TRUE

readCatalogDatabase(database) ==
  IF database.kind = "corrupt"
  THEN [ok |-> FALSE, message |-> CorruptMessage,
        opened |-> TRUE, open |-> ~closedOnExit(TRUE)]
  ELSE LET tableInfo == findResourceTable(database)
       IN IF ~tableInfo.found
          THEN [ok |-> FALSE, message |-> SchemaNotFoundMessage,
                opened |-> TRUE, open |-> ~closedOnExit(TRUE)]
          ELSE [ok |-> TRUE, resources |-> queryResources(database, tableInfo),
                opened |-> TRUE, open |-> ~closedOnExit(FALSE)]

(***************************************************************************)
(* State.                                                                  *)
(***************************************************************************)
VARIABLES
  preferences,         \* getPreferenceValues(), fixed for the command's life
  fs,                  \* the catalog files on disk
  fsChanges,           \* number of filesystem changes so far
  cacheFile,           \* the file catalog-cache.json
  sqlInstancePromise,  \* "unset", "pending", "fulfilled" or "rejected"
  sqlInits,            \* number of initSqlJs calls so far
  state,               \* the React state of Command
  isIndexing,          \* the React state isIndexing
  started,             \* number of rebuildIndex invocations so far
  loads,               \* the invocations of rebuildIndex, in request order
  handles,             \* the invocations whose Database is not closed
  lastSettled,         \* the invocation that called setState last, 0 if none
  probe                \* input and output of the function under test

vars == <<preferences, fs, fsChanges, cacheFile, sqlInstancePromise, sqlInits,
          state, isIndexing, started, loads, handles, lastSettled, probe>>

LoadIds == 1..MaxLoads

NotRead == [read |-> FALSE, valid |-> FALSE]
NotSeen == [state |-> "notread"]
NoFile == [exists |-> "notread", mtimeMs |-> 0]
NoResult == [settled |-> FALSE, ok |-> FALSE]

\* an invocation that has not been made
IdleLoad ==
  [pc |-> "idle",
   forceRefresh |-> FALSE,
   catalogInfo |-> [ok |-> FALSE, message |-> "", scanned |-> FALSE],
   cacheSeen |-> NotSeen,      \* the cache file readCache was given
   cached |-> NotRead,         \* what readCache returned
   sqlSeen |-> "none",         \* how the awaited sqlInstancePromise settled
   fileSeen |-> NoFile,        \* the catalog file fs.readFile was given
   opened |-> FALSE,           \* a Database was constructed
   writeFault |-> "notwritten",\* the fault of the writeCache call
   result |-> NoResult]        \* what loadCatalog returned or threw

(***************************************************************************)
(* The rendered list (lines 67-109 and 169-192).  Scores and the threshold *)
(* are in tenths.                                                          *)
(***************************************************************************)
PageSize == 50

\* lines 67-70: Number(preferences.fuzzyThreshold) when finite, else 0.3
threshold(fuzzyThreshold) ==
  CASE fuzzyThreshold = "" -> 0
    [] fuzzyThreshold = "0.6" -> 6
    [] OTHER -> 3

\* fuse.search without the sort by score: hits in collection order
RECURSIVE fuseSearch_unsorted(_, _)
fuseSearch_unsorted(scores, hits) ==
  IF hits = {} THEN <<>>
  ELSE LET i == CHOOSE i \in hits : \A j \in hits : i <= j
       IN <<[refIndex |-> i, score |-> scores[i]]>>
            \o fuseSearch_unsorted(scores, hits \ {i})

\* fuse.search(query) of the index built at lines 77-88: scores[i] is the
\* score the query gives the i-th record of the collection and hits the
\* records scored within the threshold; they are returned best score first
\* and in collection order among equal scores (the options leave the
\* library's sort enabled)
RECURSIVE fuseSearch(_, _)
fuseSearch(scores, hits) ==
  IF hits = {} THEN <<>>
  ELSE LET i == CHOOSE i \in hits :
                  \A j \in hits :
                    \/ scores[i] < scores[j]
                    \/ scores[i] = scores[j] /\ i <= j
       IN <<[refIndex |-> i, score |-> scores[i]]>>
            \o fuseSearch(scores, hits \ {i})

\* lines 91-109; scores are those of the trimmed search text
filteredResourcesFor(resources, searchText, fuzzyThreshold, scores) ==
  IF resources = <<>> THEN <<>>
  ELSE IF trim(searchText) = "" THEN slice(resources, PageSize)
  ELSE LET limit == threshold(fuzzyThreshold)
           found == fuseSearch(scores, {i \in DOMAIN resources : scores[i] <= limit})
       IN slice([k \in DOMAIN found |-> resources[found[k].refIndex]], PageSize)

\* the list rendered while the search text is empty
filteredResources == filteredResourcesFor(state.resources, "", Undefined, <<>>)

listIsLoading == state.isLoading \/ isIndexing

showEmptyView == ~listIsLoading /\ filteredResources = <<>>

\* the description of the empty view (line 183)
emptyViewDescription ==
  IF state.error # Undefined THEN state.error
  ELSE "Try a different search term or rebuild the index."

\* a Rebuild Index action is on screen: in the empty view's panel (line 186)
\* or in the panel of a list item (line 205)
rebuildOffered == showEmptyView \/ filteredResources # <<>>

(***************************************************************************)
(* rebuildIndex (lines 111-135) and loadCatalog (lines 218-237), one       *)
(* action for each stretch of code between two awaits.                     *)
(***************************************************************************)
envUnchanged == UNCHANGED <<preferences, fs, fsChanges, probe>>

\* the invocations that have started and not yet run their finally block
inFlight == {l \in LoadIds : loads[l].pc \notin {"idle", "done"}}

\* lines 113-116: the synchronous start of rebuildIndex(forceRefresh)
rebuildIndex(l, forceRefresh) ==
  /\ loads[l].pc = "idle"
  /\ started' = l
  /\ isIndexing' = TRUE
  /\ state' = [state EXCEPT
                 !.isLoading = ~forceRefresh /\ Len(state.resources) = 0]
  /\ loads' = [loads EXCEPT ![l] = [@ EXCEPT !.pc = "resolve",
                                              !.forceRefresh = forceRefresh]]
  /\ UNCHANGED <<cacheFile, sqlInstancePromise, sqlInits, handles, lastSettled>>
  /\ envUnchanged

\* lines 137-139: the effect that runs once when the command is mounted
Mount ==
  /\ started = 0
  /\ probe.op = "none"
  /\ rebuildIndex(1, FALSE)

\* lines 186 and 205: the user picks a Rebuild Index action that is on screen
RebuildAction ==
  /\ started >= 1
  /\ started < MaxLoads
  /\ rebuildOffered
  /\ rebuildIndex(started + 1, TRUE)

\* the freshness test with > for === on the mtime
cacheFresh_newerOnly(cached, catalogInfo) ==
  /\ cached.valid
  /\ cached.dbPath = catalogInfo.path
  /\ cached.mtimeMs > catalogInfo.mtimeMs

\* the freshness test without the mtime
cacheFresh_pathOnly(cached, catalogInfo) ==
  /\ cached.valid
  /\ cached.dbPath = catalogInfo.path

\* line 224
cacheFresh(cached, catalogInfo) ==
  /\ cached.valid
  /\ cached.dbPath = catalogInfo.path
  /\ cached.mtimeMs = catalogInfo.mtimeMs

\* the cache read without the forceRefresh test
readsCache_always(forceRefresh) == TRUE

\* line 222
readsCache(forceRefresh) == ~forceRefresh

failed(message) == [settled |-> TRUE, ok |-> FALSE, message |-> message]
loaded(resources, dbPath) ==
  [settled |-> TRUE, ok |-> TRUE, resources |-> resources, dbPath |-> dbPath]

\* line 219: resolveCatalog, and the branch of line 222
Resolve(l) ==
  /\ loads[l].pc = "resolve"
  /\ LET catalogInfo == resolveCatalog(preferences, fs)
     IN loads' = [loads EXCEPT ![l] =
          IF ~catalogInfo.ok
          THEN [@ EXCEPT !.catalogInfo = catalogInfo,
                         !.result = failed(catalogInfo.message),
                         !.pc = "settle"]
          ELSE [@ EXCEPT !.catalogInfo = catalogInfo,
                         !.pc = IF readsCache(loads[l].forceRefresh) THEN "cache" ELSE "sql"]]
  /\ UNCHANGED <<cacheFile, sqlInstancePromise, sqlInits, state, isIndexing,
                 started, handles, lastSettled>>
  /\ envUnchanged

\* lines 223-227
ReadCache(l) ==
  /\ loads[l].pc = "cache"
  /\ LET cached == readCache(cacheFile)
         hit == cacheFresh(cached, loads[l].catalogInfo)
     IN loads' = [loads EXCEPT ![l] =
          [@ EXCEPT !.cacheSeen = cacheFile,
                    !.cached = cached,
                    !.result = IF hit
                               THEN loaded(cached.resources, loads[l].catalogInfo.path)
                               ELSE @,
                    !.pc = IF hit THEN "settle" ELSE "sql"]]
  /\ UNCHANGED <<cacheFile, sqlInstancePromise, sqlInits, state, isIndexing,
                 started, handles, lastSettled>>
  /\ envUnchanged

SqlInitMessage == "failed to load sql-wasm.wasm"

\* line 283: the load after await getSqlInstance(), by the state of the
\* promise; a promise that has settled already lets the load go on at once
awaitedSql(ld, promise) ==
  CASE promise = "rejected" ->
         [ld EXCEPT !.sqlSeen = "rejected",
                    !.result = failed(SqlInitMessage),
                    !.pc = "settle"]
    [] promise = "fulfilled" ->
         [ld EXCEPT !.sqlSeen = "fulfilled", !.pc = "readFile"]
    [] OTHER -> [ld EXCEPT !.sqlSeen = "pending", !.pc = "awaitSql"]

\* initSqlJs called by every caller
startsInit_always(promise) == TRUE

\* lines 296-301: getSqlInstance; initSqlJs is called when no promise is stored
startsInit(promise) == promise = "unset"

GetSqlInstance(l) ==
  /\ loads[l].pc = "sql"
  /\ IF startsInit(sqlInstancePromise)
     THEN sqlInstancePromise' = "pending" /\ sqlInits' = sqlInits + 1
     ELSE UNCHANGED <<sqlInstancePromise, sqlInits>>
  /\ loads' = [loads EXCEPT ![l] = awaitedSql(loads[l], sqlInstancePromise)]
  /\ UNCHANGED <<cacheFile, state, isIndexing, started, handles, lastSettled>>
  /\ envUnchanged

\* the promise of initSqlJs settles
SqlInitSettles ==
  /\ sqlInstancePromise = "pending"
  /\ sqlInstancePromise' \in {"fulfilled", "rejected"}
  /\ UNCHANGED <<cacheFile, sqlInits, state, isIndexing, started, loads,
                 handles, lastSettled>>
  /\ envUnchanged

\* line 283: the await of getSqlInstance() resumes
AwaitSql(l) ==
  /\ loads[l].pc = "awaitSql"
  /\ sqlInstancePromise \in {"fulfilled", "rejected"}
  /\ loads' = [loads EXCEPT ![l] = awaitedSql(loads[l], sqlInstancePromise)]
  /\ UNCHANGED <<cacheFile, sqlInstancePromise, sqlInits, state, isIndexing,
                 started, handles, lastSettled>>
  /\ envUnchanged

ReadFileMessage(exists) ==
  IF exists = "denied" THEN AccessMessage ELSE "ENOENT: no such file or directory"

\* writeCache reached whether or not readCatalogDatabase threw
afterRead_alwaysWrite(ok) == "write"

\* lines 229-230: writeCache follows readCatalogDatabase only when it returns
afterRead(ok) == IF ok THEN "write" ELSE "settle"

\* lines 284-293 and 229: fs.readFile, then the synchronous rest of
\* readCatalogDatabase
ReadCatalogDatabase(l) ==
  /\ loads[l].pc = "readFile"
  /\ LET file == statOf(fs, loads[l].catalogInfo.path)
     IN IF file.exists # "yes"
        THEN /\ loads' = [loads EXCEPT ![l] =
                  [@ EXCEPT !.fileSeen = file,
                            !.result = failed(ReadFileMessage(file.exists)),
                            !.pc = "settle"]]
             /\ UNCHANGED handles
        ELSE LET r == readCatalogDatabase(Database(versionAt(file.mtimeMs)))
             IN /\ loads' = [loads EXCEPT ![l] =
                     [@ EXCEPT !.fileSeen = file,
                               !.opened = r.opened,
                               !.result = IF r.ok
                                          THEN loaded(r.resources, loads[l].catalogInfo.path)
                                          ELSE failed(r.message),
                               !.pc = afterRead(r.ok)]]
                /\ handles' = IF r.open THEN handles \cup {l} ELSE handles
  /\ UNCHANGED <<cacheFile, sqlInstancePromise, sqlInits, state, isIndexing,
                 started, lastSettled>>
  /\ envUnchanged

WriteFailedMessage == "EACCES: permission denied, open catalog-cache.json"

\* lines 230-234: writeCache with the payload of this load
WriteCache(l) ==
  /\ loads[l].pc = "write"
  /\ \E fault \in WriteFaults :
       LET w == writeCache(cacheFile,
                           [dbPath |-> loads[l].catalogInfo.path,
                            mtimeMs |-> loads[l].catalogInfo.mtimeMs,
                            resources |-> loads[l].result.resources],
                           fault)
       IN /\ cacheFile' = w.file
          /\ loads' = [loads EXCEPT ![l] =
               [@ EXCEPT !.writeFault = IF fault = "none" THEN "none" ELSE "failed",
                         !.result = IF w.threw THEN failed(WriteFailedMessage)
                                    ELSE @,
                         !.pc = "settle"]]
  /\ UNCHANGED <<sqlInstancePromise, sqlInits, state, isIndexing, started,
                 handles, lastSettled>>
  /\ envUnchanged

\* line 120
stateOnSuccess(previous, catalog) ==
  [resources |-> catalog.resources, dbPath |-> catalog.dbPath,
   isLoading |-> FALSE, error |-> Undefined]

\* the catch block spreading the previous state
stateOnFailure_keepsRecords(previous, message) ==
  [previous EXCEPT !.isLoading = FALSE, !.error = message]

\* lines 125-129
stateOnFailure(previous, message) ==
  [resources |-> <<>>, dbPath |-> Undefined, isLoading |-> FALSE,
   error |-> message]

\* line 131
indexingAfterSettle(l) == FALSE

\* rebuildIndex has returned: its locals are gone, the model keeps what it
\* was asked and what loadCatalog gave it
settledLoad(ld) ==
  [IdleLoad EXCEPT !.pc = "done",
                   !.forceRefresh = ld.forceRefresh,
                   !.result = ld.result]

\* lines 119-132: the await of loadCatalog resumes in the try or the catch
\* block, then the finally block runs
Settle(l) ==
  /\ loads[l].pc = "settle"
  /\ state' = IF loads[l].result.ok
              THEN stateOnSuccess(state, loads[l].result)
              ELSE stateOnFailure(state, loads[l].result.message)
  /\ isIndexing' = indexingAfterSettle(l)
  /\ lastSettled' = l
  /\ loads' = [loads EXCEPT ![l] = settledLoad(loads[l])]
  /\ UNCHANGED <<cacheFile, sqlInstancePromise, sqlInits, started, handles>>
  /\ envUnchanged

(***************************************************************************)
(* The environment: Logos or the user changes a catalog file.              *)
(***************************************************************************)
FileStates ==
  {[exists |-> "no", mtimeMs |-> 0], [exists |-> "denied", mtimeMs |-> 0]}
  \cup [exists : {"yes"}, mtimeMs : 1..MaxMtime]

FsChange ==
  /\ probe.op = "none"
  /\ started >= 1
  /\ fsChanges < MaxFsChanges
  /\ fsChanges' = fsChanges + 1
  /\ \E p \in DOMAIN fs.files : \E st \in FileStates :
       /\ st # fs.files[p]
       /\ st.exists = "yes" => st.mtimeMs > fs.files[p].mtimeMs
       /\ fs' = [fs EXCEPT !.files[p] = st]
  /\ UNCHANGED <<preferences, cacheFile, sqlInstancePromise, sqlInits, state,
                 isIndexing, started, loads, handles, lastSettled, probe>>

(***************************************************************************)
(* The initial states: the command has just been mounted.                  *)
(***************************************************************************)
OverridePath == "/Users/u/catalog.db"

\* no override path is configured
MainPreferences == {[catalogPath |-> Undefined]}

\* one account folder with a catalog, a plain file and an account folder
\* without a catalog
MainFilesystem ==
  [base |-> "yes",
   entries |-> <<[name |-> "a", isDirectory |-> TRUE],
                 [name |-> ".DS_Store", isDirectory |-> FALSE],
                 [name |-> "b", isDirectory |-> TRUE]>>,
   files |-> (candidatePath("a") :> [exists |-> "yes", mtimeMs |-> 2])]

\* what an earlier run of the command left in the cache for a catalog
cacheOf(path, mtimeMs) ==
  [state |-> "file",
   text |-> JSONstringify([dbPath |-> path, mtimeMs |-> mtimeMs,
              resources |->
                readCatalogDatabase(Database(versionAt(mtimeMs))).resources])]

WrongShapeDocs ==
  {JNull,
   JObj(<<Member("dbPath", JStr(candidatePath("a"))), Member("mtimeMs", JStr("2")),
          Member("resources", JArr(<<>>))>>)}

FaultyCacheFiles ==
  {[state |-> "missing"], [state |-> "unreadable"],
   [state |-> "file", text |-> [kind |-> "garbage"]]}
  \cup {[state |-> "file", text |-> [kind |-> "json", doc |-> d]] : d \in WrongShapeDocs}

InitialCacheFiles ==
  FaultyCacheFiles
  \cup {cacheOf(candidatePath("a"), 1), cacheOf(candidatePath("a"), 2)}

NoProbe == [op |-> "none"]

InitCommand ==
  /\ sqlInstancePromise = "unset"
  /\ sqlInits = 0
  /\ state = [resources |-> <<>>, dbPath |-> Undefined, isLoading |-> TRUE,
              error |-> Undefined]
  /\ isIndexing = FALSE
  /\ started = 0
  /\ loads = [l \in LoadIds |-> IdleLoad]
  /\ handles = {}
  /\ lastSettled = 0
  /\ fsChanges = 0

Init ==
  /\ InitCommand
  /\ preferences \in MainPreferences
  /\ fs = MainFilesystem
  /\ cacheFile \in InitialCacheFiles
  /\ probe = NoProbe

Next ==
  \/ Mount
  \/ RebuildAction
  \/ \E l \in LoadIds : Resolve(l)
  \/ \E l \in LoadIds : ReadCache(l)
  \/ \E l \in LoadIds : GetSqlInstance(l)
  \/ SqlInitSettles
  \/ \E l \in LoadIds : AwaitSql(l)
  \/ \E l \in LoadIds : ReadCatalogDatabase(l)
  \/ \E l \in LoadIds : WriteCache(l)
  \/ \E l \in LoadIds : Settle(l)
  \/ FsChange

Spec == Init /\ [][Next]_vars

(***************************************************************************)
(* SpecExtract: readCatalogDatabase applied to every table of at most      *)
(* MaxRows rows drawn from ExtractRows.  The author of the k-th row is k,  *)
(* so a record of the result names the row it was built from.              *)
(***************************************************************************)
ExtractIds == {SqlNull, SqlText(""), SqlText("1"), SqlInt(1), SqlText("2")}
ExtractTitles == {SqlNull, SqlText(""), SqlText("b"), SqlText("a"), SqlText("A")}

NotRun == [done |-> FALSE]

extractTable(cells) ==
  [name |-> "Resource",
   columns |-> <<"ResourceId", "TITLE", "author">>,
   rows |-> [k \in DOMAIN cells |->
               <<cells[k][1], cells[k][2], SqlText(StringOfNumber(k))>>]]

InitExtract ==
  /\ InitCommand
  /\ preferences \in MainPreferences
  /\ fs = MainFilesystem
  /\ cacheFile = [state |-> "missing"]
  /\ \E n \in 0..MaxRows :
       \E cells \in [1..n -> ExtractIds \X ExtractTitles] :
         probe = [op |-> "extract", table |-> extractTable(cells), out |-> NotRun]

Extract ==
  /\ probe.op = "extract"
  /\ ~probe.out.done
  /\ LET r == readCatalogDatabase([kind |-> "sqlite", tables |-> <<probe.table>>])
     IN probe' = [probe EXCEPT !.out = [done |-> TRUE, resources |-> r.resources]]
  /\ UNCHANGED <<preferences, fs, fsChanges, cacheFile, sqlInstancePromise,
                 sqlInits, state, isIndexing, started, loads, handles, lastSettled>>

NextExtract == Extract

SpecExtract == InitExtract /\ [][NextExtract]_vars

(***************************************************************************)
(* SpecCache: writeCache applied to every payload of at most MaxCacheRows  *)
(* records, under every fault, followed by readCache of the same file.     *)
(***************************************************************************)
CacheRows ==
  [id : {"1", "2"}, title : {"a", "b"}, author : {Null, Undefined, "x"},
   abbrev : {Null, "y"}]

CachePayloads ==
  UNION {[dbPath : {candidatePath("a"), OverridePath},
          mtimeMs : 0..MaxMtime,
          resources : [1..n -> CacheRows]] : n \in 0..MaxCacheRows}

InitCache ==
  /\ InitCommand
  /\ preferences \in MainPreferences
  /\ fs = MainFilesystem
  /\ cacheFile \in {[state |-> "missing"], cacheOf(candidatePath("a"), 1)}
  /\ \E payload \in CachePayloads :
       probe = [op |-> "cache", payload |-> payload, fault |-> "notwritten",
                out |-> NotRun]

WriteThenRead ==
  /\ probe.op = "cache"
  /\ ~probe.out.done
  /\ \E fault \in WriteFaults :
       LET w == writeCache(cacheFile, probe.payload, fault)
       IN /\ cacheFile' = w.file
          /\ probe' = [probe EXCEPT !.fault = fault,
                                    !.out = [done |-> TRUE, threw |-> w.threw,
                                             cached |-> readCache(w.file)]]
  /\ UNCHANGED <<preferences, fs, fsChanges, sqlInstancePromise, sqlInits,
                 state, isIndexing, started, loads, handles, lastSettled>>

NextCache == WriteThenRead

SpecCache == InitCache /\ [][NextCache]_vars

(***************************************************************************)
(* SpecSchema: findResourceTable applied to every database of at most      *)
(* MaxTables tables whose names are known, known up to letter case, or     *)
(* unknown, and whose columns do or do not hold an id and a title.  SQLite *)
(* refuses two tables whose names differ only in letter case.              *)
(***************************************************************************)
MaxTables == 3

SchemaTableNames ==
  {"Resources", "RESOURCES", "Catalog", "LibraryResources", "Books", "Authors"}

SchemaColumnLists ==
  {<<"resourceid", "title", "author">>, <<"TITLE", "ID">>,
   <<"resourceid", "author">>, <<"Name", "abbrev">>}

InitSchema ==
  /\ InitCommand
  /\ preferences \in MainPreferences
  /\ fs = MainFilesystem
  /\ cacheFile = [state |-> "missing"]
  /\ \E n \in 0..MaxTables :
       \E names \in [1..n -> SchemaTableNames] :
         /\ \A i, j \in 1..n : i # j => toLowerCase(names[i]) # toLowerCase(names[j])
         /\ \E columns \in [1..n -> SchemaColumnLists] :
              probe = [op |-> "schema",
                       database |-> [kind |-> "sqlite",
                                     tables |-> [i \in 1..n |->
                                                   [name |-> names[i],
                                                    columns |-> columns[i],
                                                    rows |-> <<>>]]],
                       out |-> NotRun]

InferSchema ==
  /\ probe.op = "schema"
  /\ ~probe.out.done
  /\ probe' = [probe EXCEPT !.out = [done |-> TRUE,
                                     schema |-> findResourceTable(probe.database)]]
  /\ UNCHANGED <<preferences, fs, fsChanges, cacheFile, sqlInstancePromise,
                 sqlInits, state, isIndexing, started, loads, handles, lastSettled>>

NextSchema == InferSchema

SpecSchema == InitSchema /\ [][NextSchema]_vars

(***************************************************************************)
(* SpecColumn: findColumn applied to every list of at most MaxColumns      *)
(* columns, once spelled in lower case and once under another spelling of  *)
(* the same names, against each candidate list of the program.  SQLite     *)
(* refuses two columns whose names differ only in letter case.             *)
(***************************************************************************)
MaxColumns == 3

\* <<lower-case name, spelling>>
ColumnSpellings ==
  {<<"title", "title">>, <<"title", "TITLE">>, <<"title", "Title">>,
   <<"id", "id">>, <<"id", "ID">>,
   <<"resourceid", "resourceid">>, <<"resourceid", "ResourceId">>,
   <<"name", "name">>, <<"name", "Name">>,
   <<"author", "author">>, <<"author", "Author">>}

InitColumn ==
  /\ InitCommand
  /\ preferences \in MainPreferences
  /\ fs = MainFilesystem
  /\ cacheFile = [state |-> "missing"]
  /\ \E n \in 0..MaxColumns :
       \E spelled \in [1..n -> ColumnSpellings] :
         /\ \A i, j \in 1..n : i # j => spelled[i][1] # spelled[j][1]
         /\ \E candidates \in {ID_COLUMN_CANDIDATES, TITLE_COLUMN_CANDIDATES,
                                AUTHOR_COLUMN_CANDIDATES, ABBREV_COLUMN_CANDIDATES} :
              probe = [op |-> "column",
                       lower |-> [i \in 1..n |-> spelled[i][1]],
                       columns |-> [i \in 1..n |-> spelled[i][2]],
                       candidates |-> candidates,
                       out |-> NotRun]

FindColumn ==
  /\ probe.op = "column"
  /\ ~probe.out.done
  /\ probe' = [probe EXCEPT !.out =
                 [done |-> TRUE,
                  lower |-> findColumn(probe.lower, probe.candidates),
                  column |-> findColumn(probe.columns, probe.candidates)]]
  /\ UNCHANGED <<preferences, fs, fsChanges, cacheFile, sqlInstancePromise,
                 sqlInits, state, isIndexing, started, loads, handles, lastSettled>>

NextColumn == FindColumn

SpecColumn == InitColumn /\ [][NextColumn]_vars

(***************************************************************************)
(* SpecResolve: resolveCatalog applied to every preference value and every *)
(* filesystem whose base directory lists at most MaxEntries entries.  An   *)
(* entry is a plain file, or an account folder whose catalog is absent,    *)
(* unreadable, or present with one of two modification times.              *)
(***************************************************************************)
MaxEntries == 3

ResolveFileStates ==
  {[exists |-> "no", mtimeMs |-> 0], [exists |-> "denied", mtimeMs |-> 0],
   [exists |-> "yes", mtimeMs |-> 1], [exists |-> "yes", mtimeMs |-> 2]}

\* an entry of the base directory that is not a folder
PlainFile == [exists |-> "notdir", mtimeMs |-> 0]

\* the filesystem whose base directory lists the names in order; kinds[i] is
\* PlainFile for a plain file, else the state of the catalog of the folder
filesystemOf(names, kinds, overrideFile) ==
  [base |-> "yes",
   entries |-> [i \in DOMAIN names |->
                  [name |-> names[i], isDirectory |-> kinds[i] # PlainFile]],
   files |-> [p \in {candidatePath(names[i]) : i \in DOMAIN names} \cup {OverridePath} |->
                IF p = OverridePath THEN overrideFile
                ELSE LET i == CHOOSE i \in DOMAIN names : candidatePath(names[i]) = p
                     IN IF kinds[i] = PlainFile THEN [exists |-> "no", mtimeMs |-> 0]
                        ELSE kinds[i]]]

InitResolve ==
  /\ InitCommand
  /\ cacheFile = [state |-> "missing"]
  /\ probe = [op |-> "resolve", out |-> NotRun]
  /\ preferences \in [catalogPath : {Undefined, "  ", " ~/catalog.db "}]
  /\ \E overrideFile \in ResolveFileStates :
       /\ falsy(IF preferences.catalogPath = Undefined THEN Undefined
                ELSE trim(preferences.catalogPath))
            => overrideFile.exists = "no"
       /\ \/ \E base \in {"no", "denied"} :
               fs = [filesystemOf(<<>>, <<>>, overrideFile) EXCEPT !.base = base]
          \/ \E n \in 0..MaxEntries :
               \E names \in [1..n -> {"a", "b", "c", "d"}] :
                 /\ \A i, j \in 1..n : i # j => names[i] # names[j]
                 /\ \E kinds \in [1..n -> ResolveFileStates \cup {PlainFile}] :
                      fs = filesystemOf(names, kinds, overrideFile)

ResolveCatalog ==
  /\ probe.op = "resolve"
  /\ ~probe.out.done
  /\ probe' = [probe EXCEPT !.out = [done |-> TRUE,
                                     info |-> resolveCatalog(preferences, fs)]]
  /\ UNCHANGED <<preferences, fs, fsChanges, cacheFile, sqlInstancePromise,
                 sqlInits, state, isIndexing, started, loads, handles, lastSettled>>

NextResolve == ResolveCatalog

SpecResolve == InitResolve /\ [][NextResolve]_vars

(***************************************************************************)
(* SpecSearch: the rendered list for empty, blank and non-empty search     *)
(* texts over a loaded list of at most MaxSearchRows records, or of about  *)
(* PageSize records, under every threshold preference and scoring of the   *)
(* records.                                                                *)
(***************************************************************************)
MaxSearchRows == 3

ScoreValues == <<0, 2, 5, 10>>

\* a title-sorted list of n records with distinct ids
loadedRecords(n) ==
  [i \in 1..n |-> [id |-> ToString(i), title |-> "a", author |-> Null, abbrev |-> Null]]

InitSearch ==
  /\ sqlInstancePromise = "unset"
  /\ sqlInits = 0
  /\ isIndexing = FALSE
  /\ started = 1
  /\ loads = [l \in LoadIds |-> IdleLoad]
  /\ handles = {}
  /\ lastSettled = 0
  /\ fsChanges = 0
  /\ fs = MainFilesystem
  /\ cacheFile = [state |-> "missing"]
  /\ preferences \in [catalogPath : {Undefined}, fuzzyThreshold : {Undefined, "", "0.6"}]
  /\ \E n \in (0..MaxSearchRows) \cup {PageSize - 1, PageSize, PageSize + 1} :
       /\ state = [resources |-> loadedRecords(n), dbPath |-> candidatePath("a"),
                   isLoading |-> FALSE, error |-> Undefined]
       /\ \E searchText \in {"", "  ", " ge ", "ge"} :
            \E scores \in IF n <= MaxSearchRows
                           THEN [1..n -> Range(ScoreValues)]
                           ELSE {[i \in 1..n |-> ScoreValues[((i * k + o) % 4) + 1]] :
                                   k \in 0..3, o \in 0..3} :
              probe = [op |-> "search", searchText |-> searchText,
                       scores |-> scores, out |-> NotRun]

Render ==
  /\ probe.op = "search"
  /\ ~probe.out.done
  /\ probe' = [probe EXCEPT !.out =
                 [done |-> TRUE,
                  items |-> filteredResourcesFor(state.resources, probe.searchText,
                                                 preferences.fuzzyThreshold,
                                                 probe.scores)]]
  /\ UNCHANGED <<preferences, fs, fsChanges, cacheFile, sqlInstancePromise,
                 sqlInits, state, isIndexing, started, loads, handles, lastSettled>>

NextSearch == Render

SpecSearch == InitSearch /\ [][NextSearch]_vars

(***************************************************************************)
(* SpecOpen: one invocation of an open action.  openResource (lines        *)
(* 141-165), openPlan (reading-plans.tsx lines 44-63) and openLayout       *)
(* (lines 200-221) share one loop: each candidate URI is given to open,    *)
(* then showHUD is awaited inside the same try block; either call may      *)
(* reject.  probe.attempts records each URI tried and how the try block    *)
(* ended.                                                                  *)
(***************************************************************************)
\* encodeURIComponent on the ids and titles of the model
encodeURIComponent(s) ==
  CASE s = "LLS:1.0.1" -> "LLS%3A1.0.1"
    [] s = "Year 1" -> "Year%201"
    [] OTHER -> s

logosResUrl(resourceId) == "logosres:" \o resourceId
logos4Url(resourceId) == "logos4:Open?resource=" \o encodeURIComponent(resourceId)

\* the candidates with logosres first whatever the preference
primaryFirst_logosresFirst(openScheme, resourceId) ==
  <<logosResUrl(resourceId), logos4Url(resourceId)>>

\* line 145
primaryFirst(openScheme, resourceId) ==
  IF openScheme = "logos4"
  THEN <<logos4Url(resourceId), logosResUrl(resourceId)>>
  ELSE <<logosResUrl(resourceId), logos4Url(resourceId)>>

\* reading-plans.tsx lines 143-151
buildReadingPlanUris(plan) ==
  <<"logos4:Document;id=" \o plan.documentId,
    "logos:Document;id=" \o plan.documentId,
    "logos4:ReadingPlan;name=" \o encodeURIComponent(plan.title),
    "logos:ReadingPlan;name=" \o encodeURIComponent(plan.title)>>

\* reading-plans.tsx lines 321-329
buildLayoutUris(layout) ==
  <<"logos4:Layout;LayoutGuid=" \o layout.guid,
    "logos:Layout;LayoutGuid=" \o layout.guid,
    "logos4:Layouts;name=" \o encodeURIComponent(layout.title),
    "logos:Layouts;name=" \o encodeURIComponent(layout.title)>>

InitOpen ==
  /\ InitCommand
  /\ fs = MainFilesystem
  /\ cacheFile = [state |-> "missing"]
  /\ preferences \in [catalogPath : {Undefined}, openScheme : {"logosres", "logos4"}]
  /\ probe = [op |-> "open", pc |-> "idle"]

\* the invocation up to its loop: the candidate list is built
invoked(handler, argument, uris) ==
  /\ probe.op = "open"
  /\ probe.pc = "idle"
  /\ probe' = [op |-> "open", pc |-> "loop", handler |-> handler,
               argument |-> argument, uris |-> uris, attempts |-> <<>>,
               toast |-> FALSE]
  /\ UNCHANGED <<preferences, fs, fsChanges, cacheFile, sqlInstancePromise,
                 sqlInits, state, isIndexing, started, loads, handles, lastSettled>>

OpenResource ==
  \E resourceId \in {"LLS:1.0.1", "42"} :
    invoked("openResource", resourceId, primaryFirst(preferences.openScheme, resourceId))

OpenPlan ==
  \E plan \in [documentId : {"7"}, title : {"Year 1", "Daily"}] :
    invoked("openPlan", plan, buildReadingPlanUris(plan))

OpenLayout ==
  \E layout \in [guid : {"g1"}, title : {"Year 1", "Study"}] :
    invoked("openLayout", layout, buildLayoutUris(layout))

\* how one pass through the try block ends: open rejects, open resolves and
\* showHUD rejects, or both resolve
TryOutcomes == {"openThrows", "hudThrows", "returned"}

\* lines 148-156: one iteration of the loop over the candidates; the handler
\* returns from inside the try block only, any rejection lands in the catch
\* block and the loop goes on
TryOpen ==
  /\ probe.op = "open"
  /\ probe.pc = "loop"
  /\ \E outcome \in TryOutcomes :
       LET attempts == Append(probe.attempts,
                              [uri |-> probe.uris[Len(probe.attempts) + 1],
                               outcome |-> outcome])
       IN probe' = [probe EXCEPT
                      !.attempts = attempts,
                      !.pc = IF outcome = "returned" THEN "done"
                             ELSE IF Len(attempts) = Len(probe.uris) THEN "toast"
                             ELSE "loop"]
  /\ UNCHANGED <<preferences, fs, fsChanges, cacheFile, sqlInstancePromise,
                 sqlInits, state, isIndexing, started, loads, handles, lastSettled>>

\* lines 158-162: the failure toast after the loop
ShowFailureToast ==
  /\ probe.op = "open"
  /\ probe.pc = "toast"
  /\ probe' = [probe EXCEPT !.toast = TRUE, !.pc = "done"]
  /\ UNCHANGED <<preferences, fs, fsChanges, cacheFile, sqlInstancePromise,
                 sqlInits, state, isIndexing, started, loads, handles, lastSettled>>

NextOpen ==
  \/ OpenResource
  \/ OpenPlan
  \/ OpenLayout
  \/ TryOpen
  \/ ShowFailureToast

SpecOpen == InitOpen /\ [][NextOpen]_vars

(***************************************************************************)
(* Properties.                                                             *)
(***************************************************************************)
\* loadCatalog has returned or thrown and rebuildIndex has not resumed yet
returned(ld) == ld.pc = "settle"

\* the payload readCache gave the load matches the location it resolved
sameLocation(ld) ==
  /\ ld.cached.valid
  /\ ld.cached.dbPath = ld.catalogInfo.path
  /\ ld.cached.mtimeMs = ld.catalogInfo.mtimeMs

\* C1: an unforced load whose cache read yields a valid payload with the path
\* and mtime of the location it resolved returns exactly the cached records
\* and the resolved path, and it never awaits the SQL engine, reads the
\* catalog file or opens a database.
C1_CacheHitSkipsDatabase ==
  \A l \in LoadIds :
    LET ld == loads[l]
    IN (~ld.forceRefresh /\ sameLocation(ld)) =>
         /\ returned(ld)
         /\ ld.result = loaded(ld.cached.resources, ld.catalogInfo.path)
         /\ ld.sqlSeen = "none"
         /\ ld.fileSeen = NoFile
         /\ ~ld.opened
         /\ l \notin handles

C1_Witness ==
  \E l \in LoadIds :
    /\ returned(loads[l])
    /\ ~loads[l].forceRefresh
    /\ sameLocation(loads[l])
    /\ Len(loads[l].cached.resources) = 2
    /\ loads[l].result.resources = loads[l].cached.resources

\* C2: a forced load never reads the cache and always goes on to extraction
\* once the catalog is resolved; and the step in which its cache write
\* succeeds leaves a cache file that readCache accepts, that is fresh for the
\* location the load resolved and that holds the records the load extracted.
C2_ForcedNeverReads ==
  \A l \in LoadIds :
    LET ld == loads[l]
    IN ld.forceRefresh =>
         /\ ld.cached = NotRead
         /\ ld.cacheSeen = NotSeen
         /\ ld.pc # "cache"
         /\ (returned(ld) /\ ld.catalogInfo.ok) => ld.sqlSeen # "none"
         /\ (returned(ld) /\ ld.result.ok) => ld.opened

C2_WriteLeavesFreshCache ==
  \A l \in LoadIds :
    (/\ loads[l].forceRefresh
     /\ loads[l].pc = "write"
     /\ loads'[l].pc = "settle"
     /\ loads'[l].writeFault = "none") =>
       LET after == readCache(cacheFile')
       IN /\ cacheFresh(after, loads[l].catalogInfo)
          /\ after.resources = loads'[l].result.resources

C2_ForcedRefreshOverwritesCache ==
  [](C2_ForcedNeverReads) /\ [][C2_WriteLeavesFreshCache]_vars

C2_Witness ==
  \E l \in LoadIds :
    /\ loads[l].forceRefresh
    /\ returned(loads[l])
    /\ loads[l].writeFault = "none"
    /\ loads[l].opened
    /\ cacheFresh(readCache(cacheFile), loads[l].catalogInfo)
    /\ readCache(cacheFile).resources = loads[l].result.resources
    /\ Len(loads[l].result.resources) = 2

cacheFaulty(file) ==
  \/ file.state \in {"missing", "unreadable"}
  \/ file.state = "file" /\ file.text.kind = "garbage"
  \/ file.state = "file" /\ file.text.kind = "json" /\ file.text.doc \in WrongShapeDocs

\* what a load with a cold cache and a successful cache write returns or
\* throws, given the engine and the catalog file the load was given
coldOutcome(ld) ==
  IF ld.sqlSeen = "rejected" THEN failed(SqlInitMessage)
  ELSE IF ld.fileSeen.exists # "yes" THEN failed(ReadFileMessage(ld.fileSeen.exists))
  ELSE LET database == Database(versionAt(ld.fileSeen.mtimeMs))
       IN IF database.kind = "corrupt" THEN failed(CorruptMessage)
          ELSE IF ~findResourceTable(database).found THEN failed(SchemaNotFoundMessage)
          ELSE loaded(queryResources(database, findResourceTable(database)),
                      ld.catalogInfo.path)

C6_AtMostOneLoadInFlight == Cardinality(inFlight) <= 1

\* the React state a settled load leaves
stateOf(result) ==
  IF result.ok THEN stateOnSuccess(state, result)
  ELSE stateOnFailure(state, result.message)

\* C7: once no invocation is in flight, the React state is the result of the
\* invocation requested last.
C7_LaterRequestWins ==
  (started >= 1 /\ inFlight = {}) => state = stateOf(loads[started].result)

C9_FailureState ==
  (lastSettled # 0 /\ ~loads[lastSettled].result.ok) =>
    /\ state.resources = <<>>
    /\ state.error = loads[lastSettled].result.message
    /\ filteredResources = <<>>
    /\ ~listIsLoading =>
         /\ showEmptyView
         /\ emptyViewDescription = loads[lastSettled].result.message
         /\ rebuildOffered

C9_FailureSettles ==
  \A l \in LoadIds :
    (loads[l].pc = "settle" /\ loads'[l].pc = "done" /\ ~loads[l].result.ok) =>
      /\ state'.resources = <<>>
      /\ state'.error = loads[l].result.message
      /\ showEmptyView'
      /\ rebuildOffered'

C9_FailureClearsRecords == [](C9_FailureState) /\ [][C9_FailureSettles]_vars

C9_Witness ==
  /\ lastSettled > 1
  /\ ~loads[lastSettled].result.ok
  /\ loads[lastSettled].result.message \in
       {NotFoundMessage, AccessMessage, SchemaNotFoundMessage}
  /\ loads[1].result.ok
  /\ loads[1].result.resources # <<>>
  /\ showEmptyView
  /\ state.resources = <<>>

\* C10: the records queryResources returns have pairwise distinct ids, and
\* each has a non-empty id and a non-empty title.
C10_DistinctNonEmpty ==
  (probe.op = "extract" /\ probe.out.done) =>
    LET items == probe.out.resources
    IN /\ \A i, j \in DOMAIN items : i # j => items[i].id # items[j].id
       /\ \A i \in DOMAIN items :
            /\ items[i].id \notin {"", Null, Undefined}
            /\ items[i].title \notin {"", Null, Undefined}

C10_Witness ==
  /\ probe.op = "extract"
  /\ probe.out.done
  /\ Len(probe.table.rows) = 3
  /\ probe.table.rows[1][1] = SqlText("1")
  /\ probe.table.rows[2][1] = SqlInt(1)
  /\ probe.table.rows[3][1] = SqlText("")
  /\ probe.table.rows[1][2] = SqlText("b")
  /\ probe.table.rows[2][2] = SqlText("a")
  /\ Len(probe.out.resources) = 1

\* the coerced id and title of the k-th row of the probed table, and whether
\* the row has a non-empty id and a non-empty title
rowId(k) == probe.table.rows[k][1]
rowTitle(k) == probe.table.rows[k][2]
usableRow(k) ==
  /\ rowId(k) # SqlNull
  /\ rowTitle(k) # SqlNull
  /\ CoerceToString(rowId(k)) # ""
  /\ CoerceToString(rowTitle(k)) # ""

\* C11: when several rows coerce to the same id, the record kept for that id
\* is built from the first row, in query row order, that has a non-empty id
\* and title; no field of a later row with that id appears in the result.
C11_FirstSeenWins ==
  (probe.op = "extract" /\ probe.out.done) =>
    LET items == probe.out.resources
        rows == DOMAIN probe.table.rows
    IN /\ \A i \in DOMAIN items :
            \E k \in rows :
              /\ usableRow(k)
              /\ CoerceToString(rowId(k)) = items[i].id
              /\ \A j \in rows :
                   (j < k /\ usableRow(j)) => CoerceToString(rowId(j)) # items[i].id
              /\ items[i].title = CoerceToString(rowTitle(k))
              /\ items[i].author = StringOfNumber(k)
       /\ \A k \in rows :
            usableRow(k) =>
              \E i \in DOMAIN items : items[i].id = CoerceToString(rowId(k))

C11_Witness ==
  /\ probe.op = "extract"
  /\ probe.out.done
  /\ Len(probe.table.rows) = 3
  /\ rowId(1) = SqlText("1") /\ rowTitle(1) = SqlText("")
  /\ rowId(2) = SqlInt(1) /\ rowTitle(2) = SqlText("b")
  /\ rowId(3) = SqlText("1") /\ rowTitle(3) = SqlText("a")
  /\ probe.out.resources =
       <<[id |-> "1", title |-> "b", author |-> "2", abbrev |-> Null]>>

\* C12: the records queryResources returns are sorted non-decreasing by
\* title under the collation order of the titles.
C12_SortedByTitle ==
  (probe.op = "extract" /\ probe.out.done) =>
    LET items == probe.out.resources
    IN \A i, j \in DOMAIN items :
         i < j => titleRank(items[i].title) <= titleRank(items[j].title)

C12_Witness ==
  /\ probe.op = "extract"
  /\ probe.out.done
  /\ Len(probe.table.rows) = 3
  /\ rowId(1) = SqlText("2") /\ rowTitle(1) = SqlText("A")
  /\ rowId(2) = SqlNull
  /\ rowId(3) = SqlInt(1) /\ rowTitle(3) = SqlText("a")
  /\ Len(probe.out.resources) = 2
  /\ probe.out.resources[1].id = "1"
  /\ probe.out.resources[2].id = "2"

\* a table holds both an id column and a title column, under any letter case
hasColumnOf(table, candidates) ==
  \E i \in DOMAIN table.columns : toLowerCase(table.columns[i]) \in Range(candidates)
qualifies(table) ==
  hasColumnOf(table, ID_COLUMN_CANDIDATES) /\ hasColumnOf(table, TITLE_COLUMN_CANDIDATES)

\* the place of the i-th table of the probed database in the search order:
\* its place in the known list when its name is a known name, else after
\* the known list in the order the tables are present
searchRank(i) ==
  LET known == indexOf([k \in DOMAIN RESOURCE_TABLE_CANDIDATES |->
                          toLowerCase(RESOURCE_TABLE_CANDIDATES[k])],
                       toLowerCase(probe.database.tables[i].name))
  IN IF known > 0 THEN known ELSE Len(RESOURCE_TABLE_CANDIDATES) + i

inferred == probe.op = "schema" /\ probe.out.done
returnedTable == tableIndex(probe.database, probe.out.schema.tableName)

\* C13: schema inference returns the first qualifying table of the search
\* order "known names in priority order, then every table present": of two
\* qualifying tables the one earlier in the known list is returned, and a
\* known table is returned ahead of a qualifying table of unknown name.
C13_FirstQualifyingInSearchOrder ==
  (inferred /\ probe.out.schema.found) =>
    /\ returnedTable \in DOMAIN probe.database.tables
    /\ qualifies(probe.database.tables[returnedTable])
    /\ \A j \in DOMAIN probe.database.tables :
         qualifies(probe.database.tables[j]) => searchRank(returnedTable) <= searchRank(j)

C13_Witness ==
  /\ inferred
  /\ Len(probe.database.tables) = 3
  /\ probe.database.tables[1].name = "Books"
  /\ probe.database.tables[2].name = "LibraryResources"
  /\ probe.database.tables[3].name = "Catalog"
  /\ \A j \in 1..3 : qualifies(probe.database.tables[j])
  /\ probe.out.schema.found
  /\ probe.out.schema.tableName = "Catalog"

\* the tables Resources and Catalog both qualify and no other table does
resourcesAndCatalog ==
  /\ inferred
  /\ {probe.database.tables[j].name :
        j \in {i \in DOMAIN probe.database.tables : qualifies(probe.database.tables[i])}}
       = {"Resources", "Catalog"}

\* C14 as stated: with Resources and Catalog both qualifying and no other
\* qualifying table, inference returns Catalog.
C14_ReturnsCatalog ==
  resourcesAndCatalog =>
    (probe.out.schema.found /\ probe.out.schema.tableName = "Catalog")

\* C14 amended: with Resources and Catalog both qualifying and no other
\* qualifying table, inference returns Resources, which stands ahead of
\* Catalog in the known-table list.
C14_ReturnsResources ==
  resourcesAndCatalog =>
    (probe.out.schema.found /\ probe.out.schema.tableName = "Resources")

C14_Witness ==
  /\ resourcesAndCatalog
  /\ probe.database.tables[1].name = "Catalog"
  /\ probe.database.tables[2].name = "Resources"
  /\ probe.out.schema.tableName = "Resources"

\* C15: inference fails with the schema-not-found error exactly when no table
\* has both a resolvable id column and a resolvable title column; on success
\* the returned table has both, whether or not it has author or abbreviation
\* columns.
C15_FailsIffNoQualifyingTable ==
  inferred =>
    /\ probe.out.schema.found <=>
         \E j \in DOMAIN probe.database.tables : qualifies(probe.database.tables[j])
    /\ probe.out.schema.found =>
         LET table == probe.database.tables[returnedTable]
         IN /\ qualifies(table)
            /\ probe.out.schema.idColumn \in Range(table.columns)
            /\ toLowerCase(probe.out.schema.idColumn) \in Range(ID_COLUMN_CANDIDATES)
            /\ probe.out.schema.titleColumn \in Range(table.columns)
            /\ toLowerCase(probe.out.schema.titleColumn) \in Range(TITLE_COLUMN_CANDIDATES)

C15_Witness ==
  /\ inferred
  /\ Len(probe.database.tables) = 2
  /\ probe.database.tables[1] =
       [name |-> "Resources", columns |-> <<"resourceid", "author">>, rows |-> <<>>]
  /\ probe.database.tables[2] =
       [name |-> "Books", columns |-> <<"TITLE", "ID">>, rows |-> <<>>]
  /\ probe.out.schema.found
  /\ probe.out.schema.tableName = "Books"
  /\ probe.out.schema.authorColumn = Undefined
  /\ probe.out.schema.abbrevColumn = Undefined

\* C16: column resolution is case-insensitive: a column list resolves to the
\* same column position, through the same candidate, as the same list
\* spelled in lower case; TITLE resolves as title does.
C16_CaseInsensitiveColumns ==
  (probe.op = "column" /\ probe.out.done) =>
    /\ indexOf(probe.columns, probe.out.column) = indexOf(probe.lower, probe.out.lower)
    /\ probe.out.lower # Undefined => probe.out.lower \in Range(probe.candidates)
    /\ (probe.out.column = Undefined) <=> (probe.out.lower = Undefined)

C16_Witness ==
  /\ probe.op = "column"
  /\ probe.out.done
  /\ probe.columns = <<"Name", "TITLE", "ID">>
  /\ probe.candidates = TITLE_COLUMN_CANDIDATES
  /\ probe.out.column = "TITLE"
  /\ probe.out.lower = "title"

resolved == probe.op = "resolve" /\ probe.out.done
overrideConfigured ==
  preferences.catalogPath # Undefined /\ trim(preferences.catalogPath) # ""

\* C17: with an override configured, the base directory is never scanned and
\* the result is never a discovered catalog; with no file at the expanded
\* override path, resolution fails with the not-found error naming that path.
C17_OverrideNeverFallsBack ==
  (resolved /\ overrideConfigured) =>
    /\ ~probe.out.info.scanned
    /\ probe.out.info.ok => probe.out.info.path = OverridePath
    /\ fs.files[OverridePath].exists = "no" =>
         /\ ~probe.out.info.ok
         /\ probe.out.info.message = overrideNotFound(OverridePath)

C17_Witness ==
  /\ resolved
  /\ preferences.catalogPath = " ~/catalog.db "
  /\ fs.files[OverridePath].exists = "no"
  /\ Len(fs.entries) = 2
  /\ \A i \in 1..2 : fs.entries[i].isDirectory
  /\ \A i \in 1..2 : fs.files[candidatePath(fs.entries[i].name)].exists = "yes"
  /\ probe.out.info.message = "catalog.db not found at /Users/u/catalog.db"

\* the catalogs of the account folders, by position in the listing
hasCatalog(i) ==
  /\ fs.entries[i].isDirectory
  /\ fs.files[candidatePath(fs.entries[i].name)].exists = "yes"
catalogMtime(i) == fs.files[candidatePath(fs.entries[i].name)].mtimeMs
scanCompletes ==
  /\ fs.base = "yes"
  /\ \A i \in DOMAIN fs.entries :
       fs.entries[i].isDirectory =>
         fs.files[candidatePath(fs.entries[i].name)].exists # "denied"

rendered == probe.op = "search" /\ probe.out.done

\* C19: for an empty or whitespace-only search text over n loaded records,
\* the rendered list is exactly the first min(50, n) records in loaded order,
\* whatever the scores.
C19_EmptyQueryFirstPage ==
  (rendered /\ probe.searchText \in {"", "  "}) =>
    LET n == Len(state.resources)
    IN probe.out.items = [i \in 1..(IF n < 50 THEN n ELSE 50) |-> state.resources[i]]

C19_Witness ==
  /\ rendered
  /\ probe.searchText = "  "
  /\ Len(state.resources) = 51
  /\ Len(probe.out.items) = 50
  /\ probe.out.items[50] = state.resources[50]
  /\ \E i \in DOMAIN probe.scores : probe.scores[i] = 0

\* the place in the loaded list, and the score, of a rendered record
placeOf(record) == CHOOSE i \in DOMAIN state.resources : state.resources[i] = record
scoreOf(record) == probe.scores[placeOf(record)]
matching == {i \in DOMAIN state.resources :
               probe.scores[i] <= threshold(preferences.fuzzyThreshold)}

\* C20: for a non-empty search text the rendered list holds at most 50
\* records, each a record of the loaded list within the threshold, ordered by
\* non-decreasing score with no better match left out; it is empty when
\* nothing matches and when no record is loaded.
C20_BestMatchesFirst ==
  (rendered /\ probe.searchText \notin {"", "  "}) =>
    LET items == probe.out.items
    IN /\ Len(items) <= 50
       /\ Len(items) = (IF Cardinality(matching) < 50 THEN Cardinality(matching) ELSE 50)
       /\ \A k \in DOMAIN items :
            /\ items[k] \in Range(state.resources)
            /\ placeOf(items[k]) \in matching
       /\ \A k, m \in DOMAIN items : k < m => scoreOf(items[k]) <= scoreOf(items[m])
       /\ \A i \in matching :
            state.resources[i] \notin Range(items) =>
              \A k \in DOMAIN items : scoreOf(items[k]) <= probe.scores[i]
       /\ matching = {} => items = <<>>
       /\ state.resources = <<>> => items = <<>>

C20_Witness ==
  /\ rendered
  /\ probe.searchText = " ge "
  /\ Len(state.resources) = 51
  /\ Cardinality(matching) = 51
  /\ probe.scores[1] = 5
  /\ probe.scores[2] = 0
  /\ Len(probe.out.items) = 50
  /\ probe.out.items[1] = state.resources[2]

openingResource == probe.op = "open" /\ probe.pc # "idle" /\ probe.handler = "openResource"

openedAttempts ==
  {i \in DOMAIN probe.attempts : probe.attempts[i].outcome # "openThrows"}

\* C26: one invocation of an open action tries its candidate URIs in list
\* order and stops at the first URI that opens, so at most one URI is
\* opened per invocation, and the failure toast is shown only when no URI
\* was opened.
C26_AtMostOneOpened ==
  (probe.op = "open" /\ probe.pc # "idle") =>
    /\ \A i \in DOMAIN probe.attempts : probe.attempts[i].uri = probe.uris[i]
    /\ Cardinality(openedAttempts) <= 1
    /\ \A i \in openedAttempts : i = Len(probe.attempts)
    /\ probe.toast => openedAttempts = {}

\* C22: a load that fails performs no cache write: a load that reaches
\* writeCache has a result to write, a failed load about to settle has not
\* called writeCache, and every change of the cache file is the writeCache
\* step of a load that then returns its records; forced and unforced alike.
C22_FailedLoadState ==
  \A l \in LoadIds :
    /\ loads[l].pc = "write" => loads[l].result.ok
    /\ (loads[l].pc = "settle" /\ ~loads[l].result.ok) =>
         loads[l].writeFault = "notwritten"

C22_OnlyLoadedWrites ==
  cacheFile' # cacheFile =>
    \E l \in LoadIds :
      /\ loads[l].pc = "write"
      /\ loads'[l].pc = "settle"
      /\ loads'[l].result.ok
      /\ \A k \in LoadIds \ {l} : loads'[k] = loads[k]

C22_FailedLoadWritesNothing == [](C22_FailedLoadState) /\ [][C22_OnlyLoadedWrites]_vars

C22_Witness ==
  /\ \E l \in LoadIds :
       /\ loads[l].pc = "settle"
       /\ ~loads[l].result.ok
       /\ loads[l].forceRefresh
       /\ loads[l].result.message = SchemaNotFoundMessage
  /\ \E l \in LoadIds :
       /\ loads[l].pc = "done"
       /\ ~loads[l].forceRefresh
       /\ ~loads[l].result.ok
  /\ readCache(cacheFile).valid

\* C23: the SQL engine initialization is started at most once, however the
\* loads interleave: the stored promise is set exactly when it was started,
\* and a load that calls getSqlInstance leaves one initialization started
\* and, when one was started before, the stored promise as it was.
C23_OneInitState ==
  /\ sqlInits <= 1
  /\ (sqlInits = 0) <=> (sqlInstancePromise = "unset")
  /\ \A l \in LoadIds : loads[l].pc \in {"awaitSql", "readFile"} => sqlInits = 1

C23_CallersShareInit ==
  \A l \in LoadIds :
    (loads[l].pc = "sql" /\ loads'[l].pc # "sql") =>
      /\ sqlInits' = 1
      /\ sqlInits = 1 => sqlInstancePromise' = sqlInstancePromise

C23_SqlInitOnce == [](C23_OneInitState) /\ [][C23_CallersShareInit]_vars

C23_Witness ==
  /\ sqlInits = 1
  /\ sqlInstancePromise = "pending"
  /\ \E l, k \in LoadIds :
       /\ l # k
       /\ loads[l].pc = "awaitSql"
       /\ loads[k].pc = "awaitSql"

\* C24: column resolution picks by candidate priority, not column position:
\* the resolved column is the one matching the earliest candidate that
\* matches any column, and nothing is returned only when no candidate
\* matches any column.
C24_CandidatePriority ==
  (probe.op = "column" /\ probe.out.done) =>
    LET matches == {k \in DOMAIN probe.candidates :
                      probe.candidates[k] \in Range(probe.lower)}
    IN IF matches = {}
       THEN probe.out.column = Undefined
       ELSE LET k == CHOOSE k \in matches : \A m \in matches : k <= m
                i == CHOOSE i \in DOMAIN probe.lower : probe.lower[i] = probe.candidates[k]
            IN probe.out.column = probe.columns[i]

C24_Witness ==
  /\ probe.op = "column"
  /\ probe.out.done
  /\ probe.lower = <<"id", "name", "resourceid">>
  /\ probe.candidates = ID_COLUMN_CANDIDATES
  /\ probe.out.column = "ResourceId"

\* C25: whenever some catalog load is still in flight the list is shown as
\* loading; the completion of one of two overlapping rebuilds does not clear
\* the loading indicator while the other is still running.
C25_InFlightShowsLoading == inFlight # {} => listIsLoading

====
